---- MODULE Spec2Model ----
(***************************************************************************)
(* bmc-shim: a Redfish facade over pluggable power backends.               *)
(*                                                                         *)
(* The model follows the server of src/unnamed/part_002 (auth gate, mux,   *)
(* handlers, applyReset) and the backends of src/internal/backend.  Each   *)
(* request is a goroutine: it runs in a slot, and every blocking point of  *)
(* its handler (a backend call, the restart sleep, a lock acquisition) is  *)
(* a separate step.                                                        *)
(*                                                                         *)
(* A path is the sequence of its segments: "/redfish/v1/Systems/1" is      *)
(* <<"redfish","v1","Systems","1">>, and a trailing slash is a last empty  *)
(* segment, so "/redfish/v1/" is <<"redfish","v1","">> and the empty       *)
(* string is <<"">>.                                                       *)
(***************************************************************************)
EXTENDS Naturals, Sequences, FiniteSets, TLC

VARIABLES
    cfg,      \* Config: Username, Password, Systems (id -> backend kind)
    last,     \* Server.last: map id -> bool
    boot,     \* Server.boot: map id -> Boot
    mu,       \* Server.mu: the RWMutex (w: writer or 0, r: set of readers)
    slot,     \* one record per request goroutine
    pre,      \* history: Server.last when the sequential client sent its request
    lastOk,   \* history: per id, the row of the last reset that returned success
    power     \* history: per observed id, the last backend call that succeeded

vars == <<cfg, last, boot, mu, slot, pre, lastOk, power>>

\* Number of request goroutines that may be in flight together.
NumProcs == 2

Procs == 1..NumProcs

----------------------------------------------------------------------------
\* Maps (Go map semantics: a missing key reads as the zero value)

EmptyMap == [x \in {} |-> FALSE]

Lookup(m, k) == IF k \in DOMAIN m THEN m[k] ELSE FALSE

Put(m, k, v) == [x \in (DOMAIN m) \cup {k} |-> IF x = k THEN v ELSE m[x]]

\* The history of the backend calls: a call that returned success on an id
\* under observation replaces the entry of that id.
Observe(h, id, op, ok) ==
    IF ok /\ id \in DOMAIN h THEN [h EXCEPT ![id] = op] ELSE h

ZeroBoot == [BootSourceOverrideTarget |-> "", BootSourceOverrideEnabled |-> ""]

LookupBoot(m, k) == IF k \in DOMAIN m THEN m[k] ELSE ZeroBoot

----------------------------------------------------------------------------
\* Backends: the required interface and the optional capabilities

Kinds == {"noop", "command", "homeassistant", "custom"}

\* "custom" is any other implementation of Backend with all three optional
\* interfaces, every call of which may fail.
PowerStateProvider(k) == k \in {"homeassistant", "custom"}

NameProvider(k) == k \in {"homeassistant", "custom"}

HealthChecker(k) == k \in {"command", "custom"}

\* PowerOn / PowerOff: TRUE is a nil error.
PowerOnResults(k) == IF k = "noop" THEN {TRUE} ELSE {TRUE, FALSE}

PowerOffResults(k) == IF k = "noop" THEN {TRUE} ELSE {TRUE, FALSE}

\* A call made with a context that is already done: exec.CommandContext and
\* http.NewRequestWithContext fail, noop ignores the context.
WithContext(k, cancelled, results) ==
    IF cancelled /\ k \in {"command", "homeassistant"} THEN {FALSE} ELSE results

\* Ping: the command backend always returns nil.
PingResults(k) == IF k = "command" THEN {TRUE} ELSE {TRUE, FALSE}

\* State strings the home-automation service may report for the entity.
HAStates == {"on", "ON", "On", "off", "OFF", "unavailable", "unknown", ""}

\* Mutant: the state string is compared as fetched.
ToLowerKeeps(s) == s

ToLower(s) ==
    CASE s \in {"ON", "On"} -> "on"
      [] s = "OFF" -> "off"
      [] OTHER -> s

\* fetchState: err, or the decoded state string.
FetchStateResults == {[err |-> TRUE, state |-> ""]} \cup
                     {[err |-> FALSE, state |-> s] : s \in HAStates}

HACurrentState(f) ==
    IF f.err THEN [err |-> TRUE, on |-> FALSE]
    ELSE [err |-> FALSE, on |-> (ToLower(f.state) = "on")]

CurrentStateResults(k) ==
    IF k = "homeassistant" THEN {HACurrentState(f) : f \in FetchStateResults}
    ELSE {[err |-> TRUE, on |-> FALSE], [err |-> FALSE, on |-> TRUE],
          [err |-> FALSE, on |-> FALSE]}

FriendlyNames == {"", "Desk PC"}

DisplayNameResults(k) == {[err |-> TRUE, name |-> ""]} \cup
                         {[err |-> FALSE, name |-> n] : n \in FriendlyNames}

----------------------------------------------------------------------------
\* Requests

SystemIds == {"1", "2"}

PathIds == SystemIds \cup {"9"}

RootPath == <<"redfish", "v1", "">>

RootNoSlash == <<"redfish", "v1">>

LivezPath == <<"livez">>

ReadyzPath == <<"readyz">>

SystemsPath == <<"redfish", "v1", "Systems">>

SystemPath(i) == SystemsPath \o <<i>>

ResetSuffix == <<"Actions", "ComputerSystem.Reset">>

ResetPath(i) == SystemPath(i) \o ResetSuffix

ManagerPath == <<"redfish", "v1", "Managers", "1">>

ResetPaths == {ResetPath(i) : i \in PathIds}

PlainPaths == {RootPath, RootNoSlash, LivezPath, ReadyzPath, SystemsPath,
               SystemsPath \o <<"">>, ManagerPath, <<"">>,
               SystemPath("1") \o <<"">>}
              \cup {SystemPath(i) : i \in PathIds}

Methods == {"GET", "POST"}

NoAuth == <<>>

Presented == {NoAuth, <<"admin", "secret">>, <<"admin", "wrong">>,
              <<"guest", "secret">>}

Credentials == {<<"", "">>, <<"admin", "secret">>, <<"admin", "">>}

ResetTypes == {"On", "Off", "ForceOff", "GracefulShutdown", "ForceRestart",
               "GracefulRestart", "", "Nmi"}

\* A body json.Decode rejects (empty or not JSON), or a decoded object.
Malformed == [ok |-> FALSE, ResetType |-> ""]

Bodies == {Malformed} \cup {[ok |-> TRUE, ResetType |-> t] : t \in ResetTypes}

Requests ==
    {[method |-> m, path |-> pa, auth |-> a, body |-> Malformed] :
        m \in Methods, pa \in PlainPaths, a \in Presented}
    \cup
    {[method |-> "GET", path |-> pa, auth |-> a, body |-> Malformed] :
        pa \in ResetPaths, a \in Presented}
    \cup
    {[method |-> "POST", path |-> pa, auth |-> a, body |-> b] :
        pa \in ResetPaths, a \in Presented, b \in Bodies}

NoReq == [method |-> "", path |-> <<>>, auth |-> NoAuth, body |-> Malformed]

----------------------------------------------------------------------------
\* Responses

NoDoc == [type |-> "none"]

Resp(code, msg) == [status |-> code, challenge |-> FALSE, msg |-> msg, doc |-> NoDoc]

Json(code, doc) == [status |-> code, challenge |-> FALSE, msg |-> "", doc |-> doc]

Unauthorized == [status |-> 401, challenge |-> TRUE, msg |-> "unauthorized", doc |-> NoDoc]

NoResp == Resp(0, "")

\* The (v, err) of CurrentState and the (n, err) of DisplayName, once called.
NoQuery == [called |-> FALSE, err |-> FALSE, on |-> FALSE]

NoName == [called |-> FALSE, err |-> FALSE, name |-> ""]

\* cancelled: the request context r.Context() is done (the client has gone).
Idle == [pc |-> "idle", req |-> NoReq, id |-> "", on |-> FALSE, q |-> NoQuery,
         nm |-> NoName, val |-> FALSE, calls |-> <<>>, pending |-> <<>>,
         health |-> EmptyMap, resp |-> NoResp, cancelled |-> FALSE]

Done(s, r) == [s EXCEPT !.pc = "done", !.resp = r]

Call(s, i, op, ok) == [s EXCEPT !.calls = Append(@, [id |-> i, op |-> op, ok |-> ok])]

----------------------------------------------------------------------------
\* Server: auth gate, mux and the synchronous head of each handler

Kind(i) == cfg.Systems[i]

\* Mutant: the password is not compared.
authMiddlewareUserOnly(req) ==
    IF req.path \in {RootPath, RootNoSlash, LivezPath, ReadyzPath} THEN TRUE
    ELSE IF cfg.Username = "" /\ cfg.Password = "" THEN TRUE
    ELSE IF req.auth = NoAuth \/ req.auth[1] # cfg.Username THEN FALSE
    ELSE TRUE

\* Mutant: no path is exempt from the credential check.
authMiddlewareNoExempt(req) ==
    IF cfg.Username = "" /\ cfg.Password = "" THEN TRUE
    ELSE IF req.auth = NoAuth \/ req.auth[1] # cfg.Username
                              \/ req.auth[2] # cfg.Password THEN FALSE
    ELSE TRUE

\* authMiddleware: TRUE when the request is forwarded to the mux.
authMiddleware(req) ==
    IF req.path \in {RootPath, RootNoSlash, LivezPath, ReadyzPath} THEN TRUE
    ELSE IF cfg.Username = "" /\ cfg.Password = "" THEN TRUE
    ELSE IF req.auth = NoAuth \/ req.auth[1] # cfg.Username
                              \/ req.auth[2] # cfg.Password THEN FALSE
    ELSE TRUE

HasPrefix(s, pfx) == Len(s) >= Len(pfx) /\ SubSeq(s, 1, Len(pfx)) = pfx

\* http.ServeMux with the five patterns registered in New: an exact pattern
\* matches its path only, a pattern ending in "/" matches its subtree, the
\* longest pattern wins, a subtree root without its slash is redirected.
Mux(path) ==
    CASE path = LivezPath -> "handleLivez"
      [] path = ReadyzPath -> "handleReadyz"
      [] path = SystemsPath -> "handleSystems"
      [] HasPrefix(path, SystemsPath) /\ Len(path) > 3 -> "handleSystem"
      [] HasPrefix(path, RootNoSlash) /\ Len(path) > 2 -> "handleRoot"
      [] path = RootNoSlash -> "redirect"
      [] OTHER -> "notfound"

handleRoot(req) ==
    IF req.method # "GET" THEN Resp(405, "method not allowed")
    ELSE Json(200, [type |-> "root", id |-> RootPath, Systems |-> SystemsPath])

\* Mutant: liveness fails when no system is registered.
handleLivezNeedsSystems(req) ==
    IF DOMAIN cfg.Systems = {} THEN Resp(503, "no systems") ELSE Resp(200, "ok")

handleLivez(req) == Resp(200, "ok")

\* Mutant: the member list is allocated with one entry per system and then
\* appended to.
handleSystemsPreallocated(req, order) ==
    IF req.method # "GET" THEN Resp(405, "method not allowed")
    ELSE Json(200, [type |-> "collection", id |-> SystemsPath,
               Members |-> [k \in 1..Len(order) |-> <<>>]
                           \o [k \in 1..Len(order) |-> SystemPath(order[k])],
               Count |-> 2 * Len(order)])

\* order: the iteration order of the registry map for this request.
handleSystems(req, order) ==
    IF req.method # "GET" THEN Resp(405, "method not allowed")
    ELSE LET members == [k \in 1..Len(order) |-> SystemPath(order[k])]
         IN Json(200, [type |-> "collection", id |-> SystemsPath,
                       Members |-> members, Count |-> Len(members)])

\* handleReadyz up to its first loop iteration.
handleReadyz(s, order, h) ==
    IF Len(order) = 0 THEN Done(s, Resp(200, "ok"))
    ELSE [s EXCEPT !.pc = "ping", !.pending = order, !.health = h]

TrimPrefixSystems(path) == SubSeq(path, 4, Len(path))

HasResetSuffix(s) == Len(s) >= 3 /\ SubSeq(s, Len(s) - 1, Len(s)) = ResetSuffix

TrimResetSuffix(s) == SubSeq(s, 1, Len(s) - 2)

\* Mutant: the trailing slash of the id is kept.
TrimSlashKeeps(s) == s

TrimSlash(s) == IF Len(s) >= 2 /\ s[Len(s)] = "" THEN SubSeq(s, 1, Len(s) - 1) ELSE s

Registered(id) == Len(id) = 1 /\ id[1] \in DOMAIN cfg.Systems

OnTypes == {"On"}

OffTypes == {"ForceOff", "GracefulShutdown", "Off"}

RestartTypes == {"ForceRestart", "GracefulRestart"}

\* Mutant: the default branch is missing and an unknown type restarts.
applyResetNoDefault(s, resetType) ==
    CASE resetType \in OnTypes -> [s EXCEPT !.pc = "on", !.val = TRUE]
      [] resetType \in OffTypes -> [s EXCEPT !.pc = "off", !.val = FALSE]
      [] OTHER -> [s EXCEPT !.pc = "roff", !.val = TRUE]

\* Mutant: GracefulShutdown is missing from the power-off case.
applyResetNoGraceful(s, resetType) ==
    CASE resetType \in OnTypes -> [s EXCEPT !.pc = "on", !.val = TRUE]
      [] resetType \in {"ForceOff", "Off"} -> [s EXCEPT !.pc = "off", !.val = FALSE]
      [] resetType \in RestartTypes -> [s EXCEPT !.pc = "roff", !.val = TRUE]
      [] OTHER -> Done(s, Resp(400, "unsupported ResetType"))

\* Mutant: a restart caches the state its first call left, off.
applyResetRestartCachesOff(s, resetType) ==
    CASE resetType \in OnTypes -> [s EXCEPT !.pc = "on", !.val = TRUE]
      [] resetType \in OffTypes -> [s EXCEPT !.pc = "off", !.val = FALSE]
      [] resetType \in RestartTypes -> [s EXCEPT !.pc = "roff", !.val = FALSE]
      [] OTHER -> Done(s, Resp(400, "unsupported ResetType"))

\* applyReset up to its first backend call: the switch on resetType.
applyReset(s, resetType) ==
    CASE resetType \in OnTypes -> [s EXCEPT !.pc = "on", !.val = TRUE]
      [] resetType \in OffTypes -> [s EXCEPT !.pc = "off", !.val = FALSE]
      [] resetType \in RestartTypes -> [s EXCEPT !.pc = "roff", !.val = TRUE]
      [] OTHER -> Done(s, Resp(400, "unsupported ResetType"))

\* After the power state is known: the name lookup, or straight to the boot read.
AfterState(s) ==
    [s EXCEPT !.pc = IF NameProvider(Kind(s.id)) THEN "name" ELSE "bootlock"]

\* Mutant: the reset body is decoded before the id is looked up.
handleSystemDecodesFirst(s, req) ==
    LET path == TrimPrefixSystems(req.path) IN
    IF path = <<"">> THEN Done(s, Resp(404, "not found"))
    ELSE IF HasResetSuffix(path) THEN
        LET id == TrimSlash(TrimResetSuffix(path)) IN
        IF req.method # "POST" THEN Done(s, Resp(405, "method not allowed"))
        ELSE IF ~req.body.ok THEN Done(s, Resp(400, "bad request"))
        ELSE IF ~Registered(id) THEN Done(s, Resp(404, "not found"))
        ELSE applyReset([s EXCEPT !.id = id[1]], req.body.ResetType)
    ELSE IF req.method # "GET" THEN Done(s, Resp(405, "method not allowed"))
    ELSE LET id == TrimSlash(path) IN
        IF ~Registered(id) THEN Done(s, Resp(404, "not found"))
        ELSE [s EXCEPT !.id = id[1],
                       !.pc = IF PowerStateProvider(Kind(id[1])) THEN "query"
                              ELSE "rlock"]

\* Mutant: on the reset path the id is looked up before the method is tested.
handleSystemIdFirst(s, req) ==
    LET path == TrimPrefixSystems(req.path) IN
    IF path = <<"">> THEN Done(s, Resp(404, "not found"))
    ELSE IF HasResetSuffix(path) THEN
        LET id == TrimSlash(TrimResetSuffix(path)) IN
        IF ~Registered(id) THEN Done(s, Resp(404, "not found"))
        ELSE IF req.method # "POST" THEN Done(s, Resp(405, "method not allowed"))
        ELSE IF ~req.body.ok THEN Done(s, Resp(400, "bad request"))
        ELSE applyReset([s EXCEPT !.id = id[1]], req.body.ResetType)
    ELSE IF req.method # "GET" THEN Done(s, Resp(405, "method not allowed"))
    ELSE LET id == TrimSlash(path) IN
        IF ~Registered(id) THEN Done(s, Resp(404, "not found"))
        ELSE [s EXCEPT !.id = id[1],
                       !.pc = IF PowerStateProvider(Kind(id[1])) THEN "query"
                              ELSE "rlock"]

\* handleSystem up to its first blocking call.
handleSystem(s, req) ==
    LET path == TrimPrefixSystems(req.path) IN
    IF path = <<"">> THEN Done(s, Resp(404, "not found"))
    ELSE IF HasResetSuffix(path) THEN
        LET id == TrimSlash(TrimResetSuffix(path)) IN
        IF req.method # "POST" THEN Done(s, Resp(405, "method not allowed"))
        ELSE IF ~Registered(id) THEN Done(s, Resp(404, "not found"))
        ELSE IF ~req.body.ok THEN Done(s, Resp(400, "bad request"))
        ELSE applyReset([s EXCEPT !.id = id[1]], req.body.ResetType)
    ELSE IF req.method # "GET" THEN Done(s, Resp(405, "method not allowed"))
    ELSE LET id == TrimSlash(path) IN
        IF ~Registered(id) THEN Done(s, Resp(404, "not found"))
        ELSE [s EXCEPT !.id = id[1],
                       !.pc = IF PowerStateProvider(Kind(id[1])) THEN "query"
                              ELSE "rlock"]

\* The goroutine of a request from the auth gate to its first blocking point.
ServeHTTP(req, order, h) ==
    LET s == [Idle EXCEPT !.req = req]
        route == Mux(req.path)
    IN IF ~authMiddleware(req) THEN Done(s, Unauthorized)
       ELSE CASE route = "handleRoot" -> Done(s, handleRoot(req))
              [] route = "handleLivez" -> Done(s, handleLivez(req))
              [] route = "handleSystems" -> Done(s, handleSystems(req, order))
              [] route = "handleReadyz" -> handleReadyz(s, order, h)
              [] route = "handleSystem" -> handleSystem(s, req)
              [] route = "redirect" -> Done(s, Resp(301, "moved permanently"))
              [] OTHER -> Done(s, Resp(404, "not found"))

----------------------------------------------------------------------------
\* Handlers after their first blocking point

\* Mutant: the live result is dropped and the cache is read.
ReconcileIgnoresLive(s, r) ==
    [Call([s EXCEPT !.q = [called |-> TRUE, err |-> r.err, on |-> r.on]],
          s.id, "CurrentState", ~r.err) EXCEPT !.pc = "rlock"]

\* handleSystem: the result of ps.CurrentState(ctx).
Reconcile(s, r) ==
    LET s1 == Call([s EXCEPT !.q = [called |-> TRUE, err |-> r.err, on |-> r.on]],
                   s.id, "CurrentState", ~r.err)
    IN IF ~r.err THEN AfterState([s1 EXCEPT !.on = r.on])
       ELSE [s1 EXCEPT !.pc = "rlock"]

\* Mutant: the cache is not read, on keeps its initial false.
FallbackIgnoresCache(s, m) == AfterState(s)

\* handleSystem: on = s.last[id] under the read lock.
Fallback(s, m) == AfterState([s EXCEPT !.on = Lookup(m, s.id)])

\* handleSystem: the result of np.DisplayName(ctx).
Named(s, r) ==
    Call([s EXCEPT !.nm = [called |-> TRUE, err |-> r.err, name |-> r.name],
                   !.pc = "bootlock"],
         s.id, "DisplayName", ~r.err)

\* Mutant: an empty name returned without error is used.
SystemNameAcceptsEmpty(s) ==
    IF s.nm.called /\ ~s.nm.err THEN <<s.nm.name>>
    ELSE <<"System ", s.id>>

SystemName(s) ==
    IF s.nm.called /\ ~s.nm.err /\ s.nm.name # "" THEN <<s.nm.name>>
    ELSE <<"System ", s.id>>

\* Mutant: the cached boot value is rendered as it is, unset or not.
SystemDocRawBoot(s, b) ==
    [type |-> "system",
     id |-> SystemPath(s.id),
     Id |-> s.id,
     Name |-> SystemName(s),
     PowerState |-> IF s.on THEN "On" ELSE "Off",
     BootSourceOverrideTarget |-> b.BootSourceOverrideTarget,
     BootSourceOverrideEnabled |-> b.BootSourceOverrideEnabled,
     BootAllowableValues |-> {"None", "Pxe", "Hdd"},
     ManagedBy |-> ManagerPath,
     target |-> ResetPath(s.id),
     ResetAllowableValues |-> {"On", "ForceOff", "GracefulShutdown", "ForceRestart"}]

\* handleSystem: the document written with status 200.
SystemDoc(s, b) ==
    LET bt == IF b.BootSourceOverrideTarget = ""
              THEN [BootSourceOverrideTarget |-> "None",
                    BootSourceOverrideEnabled |-> "Disabled"]
              ELSE b
    IN [type |-> "system",
        id |-> SystemPath(s.id),
        Id |-> s.id,
        Name |-> SystemName(s),
        PowerState |-> IF s.on THEN "On" ELSE "Off",
        BootSourceOverrideTarget |-> bt.BootSourceOverrideTarget,
        BootSourceOverrideEnabled |-> bt.BootSourceOverrideEnabled,
        BootAllowableValues |-> {"None", "Pxe", "Hdd"},
        ManagedBy |-> ManagerPath,
        target |-> ResetPath(s.id),
        ResetAllowableValues |-> {"On", "ForceOff", "GracefulShutdown", "ForceRestart"}]

\* Mutant: the error of PowerOn is dropped.
AfterPowerOnIgnoresError(s, ok) == [Call(s, s.id, "PowerOn", ok) EXCEPT !.pc = "lock"]

\* Mutant: a failed PowerOn is tried once more.
AfterPowerOnRetries(s, ok) ==
    LET s1 == Call(s, s.id, "PowerOn", ok)
    IN IF ok THEN [s1 EXCEPT !.pc = "lock"]
       ELSE IF \A k \in 1..Len(s.calls) : s.calls[k].op # "PowerOn" THEN s1
       ELSE Done(s1, Resp(400, "backend error"))

\* applyReset: after be.PowerOn(ctx) returned ok.
AfterPowerOn(s, ok) ==
    LET s1 == Call(s, s.id, "PowerOn", ok)
    IN IF ok THEN [s1 EXCEPT !.pc = "lock"]
       ELSE Done(s1, Resp(400, "backend error"))

\* Mutant: the error of PowerOff is dropped.
AfterPowerOffIgnoresError(s, ok) ==
    [Call(s, s.id, "PowerOff", ok) EXCEPT !.pc = IF s.pc = "off" THEN "lock" ELSE "sleep"]

\* applyReset: after be.PowerOff(ctx) returned ok.
AfterPowerOff(s, ok) ==
    LET s1 == Call(s, s.id, "PowerOff", ok)
    IN IF ok THEN [s1 EXCEPT !.pc = IF s.pc = "off" THEN "lock" ELSE "sleep"]
       ELSE Done(s1, Resp(400, "backend error"))

\* Mutant: the map is replaced instead of updated.
StoreReplacesMap(m, id, val) == [x \in {id} |-> val]

\* applyReset: s.last[id] = val.
Store(m, id, val) == Put(m, id, val)

\* The row of the reset table a ResetType belongs to.
Row(resetType) ==
    CASE resetType \in OnTypes -> "On"
      [] resetType \in OffTypes -> "Off"
      [] resetType \in RestartTypes -> "Restart"
      [] OTHER -> "none"

\* Mutant: the first failed check ends the loop.
ReadyzIterFailFast(s) ==
    LET i == Head(s.pending)
    IN IF HealthChecker(Kind(i)) THEN
           LET s1 == Call(s, i, "Ping", s.health[i]) IN
           IF s.health[i] THEN Done(s1, Resp(200, "ok"))
           ELSE Done(s1, Resp(503, "all backends failed"))
       ELSE Done(s, Resp(200, "ok"))

\* handleReadyz: one iteration of the loop over s.cfg.Systems.
ReadyzIter(s) ==
    LET i == Head(s.pending)
        rest == Tail(s.pending)
    IN IF HealthChecker(Kind(i)) THEN
           LET s1 == Call(s, i, "Ping", s.health[i]) IN
           IF s.health[i] THEN Done(s1, Resp(200, "ok"))
           ELSE IF rest = <<>> THEN Done(s1, Resp(503, "all backends failed"))
           ELSE [s1 EXCEPT !.pending = rest]
       ELSE Done(s, Resp(200, "ok"))

----------------------------------------------------------------------------
\* Inputs of a run

Reg1(k) == [i \in {"1"} |-> k]

Reg2(k1, k2) == [i \in SystemIds |-> IF i = "1" THEN k1 ELSE k2]

Registries == {EmptyMap} \cup {Reg1(k) : k \in Kinds} \cup
              {Reg2("noop", "custom"), Reg2("command", "homeassistant"),
               Reg2("custom", "custom")}

Configs == {[Username |-> c[1], Password |-> c[2], Systems |-> r] :
               c \in Credentials, r \in Registries}

\* The orders in which a range over the registry map may visit its keys.
Orders(S) == {o \in [1..Cardinality(S) -> S] :
                 \A i, j \in 1..Cardinality(S) : o[i] = o[j] => i = j}

\* What Ping returns on each health-checking backend while a request runs.
Oracles == {h \in [{i \in DOMAIN cfg.Systems : HealthChecker(Kind(i))} -> BOOLEAN] :
               \A i \in DOMAIN h : h[i] \in PingResults(Kind(i))}

OrdersFor(req) ==
    IF authMiddleware(req) /\ Mux(req.path) \in {"handleSystems", "handleReadyz"}
    THEN Orders(DOMAIN cfg.Systems) ELSE {<<>>}

OraclesFor(req) ==
    IF authMiddleware(req) /\ Mux(req.path) = "handleReadyz" THEN Oracles
    ELSE {EmptyMap}

Init ==
    /\ cfg \in Configs
    /\ last = EmptyMap
    /\ boot = [x \in {} |-> ZeroBoot]
    /\ mu = [w |-> 0, r |-> {}]
    /\ slot = [p \in Procs |-> Idle]
    /\ pre = EmptyMap
    /\ lastOk = [i \in DOMAIN cfg.Systems |-> "none"]
    /\ power = EmptyMap

----------------------------------------------------------------------------
\* Steps

\* Mutant: a request for an unknown system registers a default backend for it.
ServeRegistersUnknown(p, req) ==
    /\ p = 1
    /\ \A q \in Procs : slot[q].pc = "idle"
    /\ \E order \in OrdersFor(req), h \in OraclesFor(req) :
          slot' = [slot EXCEPT ![p] = ServeHTTP(req, order, h)]
    /\ pre' = last
    /\ cfg' = IF \E i \in PathIds \ DOMAIN cfg.Systems : req.path = SystemPath(i)
              THEN [cfg EXCEPT !.Systems =
                       Put(@, CHOOSE i \in PathIds : req.path = SystemPath(i), "noop")]
              ELSE cfg
    /\ UNCHANGED <<last, boot, mu, lastOk, power>>

\* Mutant: a request for an unknown system leaves a default cache entry for it.
ServeTouchesCache(p, req) ==
    /\ p = 1
    /\ \A q \in Procs : slot[q].pc = "idle"
    /\ \E order \in OrdersFor(req), h \in OraclesFor(req) :
          slot' = [slot EXCEPT ![p] = ServeHTTP(req, order, h)]
    /\ pre' = last
    /\ last' = IF \E i \in PathIds \ DOMAIN cfg.Systems :
                      req.path \in {SystemPath(i), ResetPath(i)}
               THEN Put(last, CHOOSE i \in PathIds :
                                  req.path \in {SystemPath(i), ResetPath(i)}, FALSE)
               ELSE last
    /\ UNCHANGED <<cfg, boot, mu, lastOk, power>>

\* A client that waits for each answer before its next request; its requests
\* run in the first goroutine.
Serve(p, req) ==
    /\ p = 1
    /\ \A q \in Procs : slot[q].pc = "idle"
    /\ \E order \in OrdersFor(req), h \in OraclesFor(req) :
          slot' = [slot EXCEPT ![p] = ServeHTTP(req, order, h)]
    /\ pre' = last
    /\ UNCHANGED <<cfg, last, boot, mu, lastOk, power>>

\* The handler has written its response: the goroutine ends.
Return(p) ==
    /\ slot[p].pc = "done"
    /\ slot' = [slot EXCEPT ![p] = Idle]
    /\ UNCHANGED <<cfg, last, boot, mu, pre, lastOk, power>>

\* Mutant: a successful live result is written back into the cache.
CurrentStateWritesBack(p) ==
    /\ slot[p].pc = "query"
    /\ \E r \in CurrentStateResults(Kind(slot[p].id)) :
          /\ slot' = [slot EXCEPT ![p] = Reconcile(@, r)]
          /\ last' = IF r.err THEN last ELSE Put(last, slot[p].id, r.on)
    /\ UNCHANGED <<cfg, boot, mu, pre, lastOk, power>>

CurrentState(p) ==
    /\ slot[p].pc = "query"
    /\ \E r \in CurrentStateResults(Kind(slot[p].id)) :
          slot' = [slot EXCEPT ![p] = Reconcile(@, r)]
    /\ UNCHANGED <<cfg, last, boot, mu, pre, lastOk, power>>

RLock(p) ==
    /\ slot[p].pc \in {"rlock", "bootlock"}
    /\ mu.w = 0
    /\ mu' = [mu EXCEPT !.r = @ \cup {p}]
    /\ slot' = [slot EXCEPT ![p].pc = IF @ = "rlock" THEN "read" ELSE "bootread"]
    /\ UNCHANGED <<cfg, last, boot, pre, lastOk, power>>

\* Mutant: the read lock is not released after the cache read.
ReadLastKeepsLock(p) ==
    /\ slot[p].pc = "read"
    /\ slot' = [slot EXCEPT ![p] = Fallback(@, last)]
    /\ UNCHANGED <<cfg, last, boot, mu, pre, lastOk, power>>

ReadLast(p) ==
    /\ slot[p].pc = "read"
    /\ slot' = [slot EXCEPT ![p] = Fallback(@, last)]
    /\ mu' = [mu EXCEPT !.r = @ \ {p}]
    /\ UNCHANGED <<cfg, last, boot, pre, lastOk, power>>

DisplayName(p) ==
    /\ slot[p].pc = "name"
    /\ \E r \in DisplayNameResults(Kind(slot[p].id)) :
          slot' = [slot EXCEPT ![p] = Named(@, r)]
    /\ UNCHANGED <<cfg, last, boot, mu, pre, lastOk, power>>

ReadBoot(p) ==
    /\ slot[p].pc = "bootread"
    /\ slot' = [slot EXCEPT ![p] =
                   Done(@, Json(200, SystemDoc(@, LookupBoot(boot, @.id))))]
    /\ mu' = [mu EXCEPT !.r = @ \ {p}]
    /\ UNCHANGED <<cfg, last, boot, pre, lastOk, power>>

PowerOn(p) ==
    /\ slot[p].pc \in {"on", "ron"}
    /\ \E ok \in WithContext(Kind(slot[p].id), slot[p].cancelled,
                            PowerOnResults(Kind(slot[p].id))) :
          /\ slot' = [slot EXCEPT ![p] = AfterPowerOn(@, ok)]
          /\ power' = Observe(power, slot[p].id, "PowerOn", ok)
    /\ UNCHANGED <<cfg, last, boot, mu, pre, lastOk>>

PowerOff(p) ==
    /\ slot[p].pc \in {"off", "roff"}
    /\ \E ok \in WithContext(Kind(slot[p].id), slot[p].cancelled,
                            PowerOffResults(Kind(slot[p].id))) :
          /\ slot' = [slot EXCEPT ![p] = AfterPowerOff(@, ok)]
          /\ power' = Observe(power, slot[p].id, "PowerOff", ok)
    /\ UNCHANGED <<cfg, last, boot, mu, pre, lastOk>>

\* Mutant: the delay is a timer that the context of the request aborts.
SleepCancellable(p) ==
    /\ slot[p].pc = "sleep"
    /\ slot' = [slot EXCEPT ![p] = IF @.cancelled
                                   THEN Done(@, Resp(400, "context canceled"))
                                   ELSE [@ EXCEPT !.pc = "ron"]]
    /\ UNCHANGED <<cfg, last, boot, mu, pre, lastOk, power>>

\* time.Sleep(2 * time.Second)
Sleep(p) ==
    /\ slot[p].pc = "sleep"
    /\ slot' = [slot EXCEPT ![p].pc = "ron"]
    /\ UNCHANGED <<cfg, last, boot, mu, pre, lastOk, power>>

\* Mutant: the write lock is taken although another writer holds it.
LockIgnoresWriter(p) ==
    /\ slot[p].pc = "lock"
    /\ mu.r = {}
    /\ mu' = [mu EXCEPT !.w = p]
    /\ slot' = [slot EXCEPT ![p].pc = "write"]
    /\ UNCHANGED <<cfg, last, boot, pre, lastOk, power>>

Lock(p) ==
    /\ slot[p].pc = "lock"
    /\ mu.w = 0
    /\ mu.r = {}
    /\ mu' = [mu EXCEPT !.w = p]
    /\ slot' = [slot EXCEPT ![p].pc = "write"]
    /\ UNCHANGED <<cfg, last, boot, pre, lastOk, power>>

\* s.last[id] = val; s.mu.Unlock(); return nil; the handler writes {"status": "ok"}.
WriteLast(p) ==
    /\ slot[p].pc = "write"
    /\ last' = Store(last, slot[p].id, slot[p].val)
    /\ mu' = [mu EXCEPT !.w = 0]
    /\ slot' = [slot EXCEPT ![p] = Done(@, Json(200, [type |-> "status", status |-> "ok"]))]
    /\ lastOk' = [lastOk EXCEPT ![slot[p].id] = Row(slot[p].req.body.ResetType)]
    /\ UNCHANGED <<cfg, boot, pre, power>>

Ping(p) ==
    /\ slot[p].pc = "ping"
    /\ slot' = [slot EXCEPT ![p] = ReadyzIter(@)]
    /\ UNCHANGED <<cfg, last, boot, mu, pre, lastOk, power>>

Step(p) ==
    \/ Return(p)
    \/ CurrentState(p)
    \/ RLock(p)
    \/ ReadLast(p)
    \/ DisplayName(p)
    \/ ReadBoot(p)
    \/ PowerOn(p)
    \/ PowerOff(p)
    \/ Sleep(p)
    \/ Lock(p)
    \/ WriteLast(p)
    \/ Ping(p)

Next ==
    \/ \E p \in Procs, req \in Requests : Serve(p, req)
    \/ \E p \in Procs : Step(p)

Spec == Init /\ [][Next]_vars

----------------------------------------------------------------------------
\* Concurrent clients: authorised reads and resets of the two systems

ConcRegistries == {Reg2("command", "command")}

ConcResetTypes == {"On", "ForceOff", "ForceRestart"}

ConcRequests ==
    {[method |-> "GET", path |-> SystemPath(i), auth |-> NoAuth, body |-> Malformed] :
        i \in SystemIds}
    \cup
    {[method |-> "POST", path |-> ResetPath(i), auth |-> NoAuth,
      body |-> [ok |-> TRUE, ResetType |-> t]] : i \in SystemIds, t \in ConcResetTypes}

InitConc ==
    /\ cfg \in {[Username |-> "", Password |-> "", Systems |-> r] : r \in ConcRegistries}
    /\ last = EmptyMap
    /\ boot = [x \in {} |-> ZeroBoot]
    /\ mu = [w |-> 0, r |-> {}]
    /\ slot = [p \in Procs |-> Idle]
    /\ pre = EmptyMap
    /\ lastOk = [i \in DOMAIN cfg.Systems |-> "none"]
    /\ power = EmptyMap

\* net/http starts a goroutine for each request as it arrives.
Accept(p, req) ==
    /\ slot[p].pc = "idle"
    /\ slot' = [slot EXCEPT ![p] = ServeHTTP(req, <<>>, EmptyMap)]
    /\ UNCHANGED <<cfg, last, boot, mu, pre, lastOk, power>>

\* The steps of the handlers these requests reach (the backends of
\* ConcRegistries have no state query and no name lookup).
StepConc(p) ==
    \/ Return(p)
    \/ RLock(p)
    \/ ReadLast(p)
    \/ ReadBoot(p)
    \/ PowerOn(p)
    \/ PowerOff(p)
    \/ Sleep(p)
    \/ Lock(p)
    \/ WriteLast(p)

NextConc ==
    \/ \E p \in Procs, req \in ConcRequests : Accept(p, req)
    \/ \E p \in Procs : StepConc(p)

SpecConc == InitConc /\ [][NextConc]_vars

----------------------------------------------------------------------------
\* Restarts of one system by clients that may go away while they wait

RestartRegistries == {Reg1("noop"), Reg1("command")}

RestartRequests ==
    {[method |-> "POST", path |-> ResetPath("1"), auth |-> NoAuth,
      body |-> [ok |-> TRUE, ResetType |-> t]] : t \in RestartTypes \cup OnTypes}

InitRestart ==
    /\ cfg \in {[Username |-> "", Password |-> "", Systems |-> r] : r \in RestartRegistries}
    /\ last = EmptyMap
    /\ boot = [x \in {} |-> ZeroBoot]
    /\ mu = [w |-> 0, r |-> {}]
    /\ slot = [p \in Procs |-> Idle]
    /\ pre = EmptyMap
    /\ lastOk = [i \in DOMAIN cfg.Systems |-> "none"]
    /\ power = EmptyMap

\* The client closes the connection: net/http cancels r.Context(); the handler
\* goroutine keeps running.
Cancel(p) ==
    /\ slot[p].pc \notin {"idle", "done"}
    /\ ~slot[p].cancelled
    /\ slot' = [slot EXCEPT ![p].cancelled = TRUE]
    /\ UNCHANGED <<cfg, last, boot, mu, pre, lastOk, power>>

StepRestart(p) ==
    \/ Return(p)
    \/ Cancel(p)
    \/ PowerOn(p)
    \/ PowerOff(p)
    \/ Sleep(p)
    \/ Lock(p)
    \/ WriteLast(p)

NextRestart ==
    \/ \E p \in Procs, req \in RestartRequests : Accept(p, req)
    \/ \E p \in Procs : StepRestart(p)

\* time.Sleep returns after its duration and the runtime schedules the
\* goroutine again.
SpecRestart == InitRestart /\ [][NextRestart]_vars /\ \A p \in Procs : WF_vars(Sleep(p))

----------------------------------------------------------------------------
\* Concurrent clients of a registry whose first backend has every capability:
\* reads, resets and readiness probes in flight together

BusyRegistries == {Reg2("custom", "command")}

BusyRequests ==
    {[method |-> "GET", path |-> SystemPath("1"), auth |-> NoAuth, body |-> Malformed],
     [method |-> "GET", path |-> ReadyzPath, auth |-> NoAuth, body |-> Malformed],
     [method |-> "POST", path |-> ResetPath("1"), auth |-> NoAuth,
      body |-> [ok |-> TRUE, ResetType |-> "ForceOff"]],
     [method |-> "POST", path |-> ResetPath("2"), auth |-> NoAuth,
      body |-> [ok |-> TRUE, ResetType |-> "ForceRestart"]]}

InitBusy ==
    /\ cfg \in {[Username |-> "", Password |-> "", Systems |-> r] : r \in BusyRegistries}
    /\ last = EmptyMap
    /\ boot = [x \in {} |-> ZeroBoot]
    /\ mu = [w |-> 0, r |-> {}]
    /\ slot = [p \in Procs |-> Idle]
    /\ pre = EmptyMap
    /\ lastOk = [i \in DOMAIN cfg.Systems |-> "none"]
    /\ power = EmptyMap

\* A request arrives while others are in flight; a range over the registry
\* visits it in some order and each Ping has some result.
Arrive(p, req) ==
    /\ slot[p].pc = "idle"
    /\ \E order \in OrdersFor(req), h \in OraclesFor(req) :
          slot' = [slot EXCEPT ![p] = ServeHTTP(req, order, h)]
    /\ UNCHANGED <<cfg, last, boot, mu, pre, lastOk, power>>

NextBusy ==
    \/ \E p \in Procs, req \in BusyRequests : Arrive(p, req)
    \/ \E p \in Procs : Step(p)

SpecBusy == InitBusy /\ [][NextBusy]_vars

----------------------------------------------------------------------------
\* Concurrent On and Off resets of one system, the backend calls observed

RaceRegistries == {Reg1("noop"), Reg1("command")}

RaceRequests ==
    {[method |-> "POST", path |-> ResetPath("1"), auth |-> NoAuth,
      body |-> [ok |-> TRUE, ResetType |-> t]] : t \in OnTypes \cup OffTypes}

InitRace ==
    /\ cfg \in {[Username |-> "", Password |-> "", Systems |-> r] : r \in RaceRegistries}
    /\ last = EmptyMap
    /\ boot = [x \in {} |-> ZeroBoot]
    /\ mu = [w |-> 0, r |-> {}]
    /\ slot = [p \in Procs |-> Idle]
    /\ pre = EmptyMap
    /\ lastOk = [i \in DOMAIN cfg.Systems |-> "none"]
    /\ power = [i \in DOMAIN cfg.Systems |-> "none"]

StepRace(p) ==
    \/ Return(p)
    \/ PowerOn(p)
    \/ PowerOff(p)
    \/ Lock(p)
    \/ WriteLast(p)

NextRace ==
    \/ \E p \in Procs, req \in RaceRequests : Accept(p, req)
    \/ \E p \in Procs : StepRace(p)

SpecRace == InitRace /\ [][NextRace]_vars

----------------------------------------------------------------------------
\* Resets sent one after the other, the backend calls observed

SeqRegistries == {Reg1("command"), Reg2("noop", "command")}

SeqRequests ==
    {[method |-> "POST", path |-> ResetPath(i), auth |-> NoAuth,
      body |-> [ok |-> TRUE, ResetType |-> t]] : i \in SystemIds, t \in ConcResetTypes}

InitSeq ==
    /\ cfg \in {[Username |-> "", Password |-> "", Systems |-> r] : r \in SeqRegistries}
    /\ last = EmptyMap
    /\ boot = [x \in {} |-> ZeroBoot]
    /\ mu = [w |-> 0, r |-> {}]
    /\ slot = [p \in Procs |-> Idle]
    /\ pre = EmptyMap
    /\ lastOk = [i \in DOMAIN cfg.Systems |-> "none"]
    /\ power = [i \in DOMAIN cfg.Systems |-> "none"]

StepSeq(p) ==
    \/ Return(p)
    \/ PowerOn(p)
    \/ PowerOff(p)
    \/ Sleep(p)
    \/ Lock(p)
    \/ WriteLast(p)

NextSeq ==
    \/ \E p \in Procs, req \in SeqRequests : Serve(p, req)
    \/ \E p \in Procs : StepSeq(p)

SpecSeq == InitSeq /\ [][NextSeq]_vars

----------------------------------------------------------------------------
\* Vocabulary of the properties, stated on the request and its answer

ExemptPaths == {RootPath, RootNoSlash, LivezPath, ReadyzPath}

CredentialsConfigured == cfg.Username # "" \/ cfg.Password # ""

PresentsConfiguredPair(req) == req.auth = <<cfg.Username, cfg.Password>>

\* The request passes the credential check of a non-exempt path.
Authorized(req) == ~CredentialsConfigured \/ PresentsConfiguredPair(req)

RegisteredIds == DOMAIN cfg.Systems

\* GET /redfish/v1/Systems/{i}, with or without a trailing slash
IsSystemGet(req, i) ==
    /\ req.method = "GET"
    /\ req.path \in {SystemPath(i), SystemPath(i) \o <<"">>}

\* POST /redfish/v1/Systems/{i}/Actions/ComputerSystem.Reset with a decodable body
IsReset(req, i) ==
    /\ req.method = "POST"
    /\ req.path = ResetPath(i)
    /\ req.body.ok

Answered(s) == s.pc = "done"

PowerStateOf(b) == IF b THEN "On" ELSE "Off"

ReportsPower(s, b) ==
    /\ s.resp.status = 200
    /\ s.resp.doc.type = "system"
    /\ s.resp.doc.PowerState = PowerStateOf(b)

Ops(calls) == [k \in 1..Len(calls) |-> calls[k].op]

AllOk(calls) == \A k \in 1..Len(calls) : calls[k].ok

----------------------------------------------------------------------------
\* C1: on a backend without live query, a GET answered while the latest
\* successful reset of that system is an On reset reports PowerState On, and
\* while it is an Off, ForceOff or GracefulShutdown reset reports Off (the
\* client is sequential; this covers the GET that directly follows the reset).
C1_ReadAfterReset ==
    \A p \in Procs : \A i \in RegisteredIds :
        LET s == slot[p] IN
        (/\ Answered(s)
         /\ IsSystemGet(s.req, i)
         /\ Authorized(s.req)
         /\ ~PowerStateProvider(Kind(i)))
        => /\ lastOk[i] = "On" => ReportsPower(s, TRUE)
           /\ lastOk[i] = "Off" => ReportsPower(s, FALSE)

C1_Witness ==
    \E p \in Procs : \E i \in RegisteredIds :
        /\ Answered(slot[p])
        /\ IsSystemGet(slot[p].req, i)
        /\ ~PowerStateProvider(Kind(i))
        /\ lastOk[i] = "On"
        /\ ReportsPower(slot[p], TRUE)

\* C2: a restart whose PowerOff and PowerOn both succeeded is answered 200 with
\* the cached state true; a restart whose PowerOff failed is answered 400, has
\* made no PowerOn call, and leaves the cache as it was before the request.
C2_Restart ==
    \A p \in Procs : \A i \in RegisteredIds :
        LET s == slot[p] IN
        (/\ Answered(s)
         /\ IsReset(s.req, i)
         /\ s.req.body.ResetType \in {"ForceRestart", "GracefulRestart"}
         /\ Authorized(s.req))
        => /\ Len(s.calls) >= 1
           /\ s.calls[1] = [id |-> i, op |-> "PowerOff", ok |-> s.calls[1].ok]
           /\ ~s.calls[1].ok =>
                 /\ Len(s.calls) = 1
                 /\ s.resp.status = 400
                 /\ last = pre
           /\ (Len(s.calls) = 2 /\ AllOk(s.calls)) =>
                 /\ s.calls[2] = [id |-> i, op |-> "PowerOn", ok |-> TRUE]
                 /\ s.resp.status = 200
                 /\ i \in DOMAIN last
                 /\ last[i] = TRUE

\* A restart fails at PowerOff while the cache holds true for the system.
C2_Witness ==
    \E p \in Procs : \E i \in RegisteredIds :
        /\ Answered(slot[p])
        /\ IsReset(slot[p].req, i)
        /\ slot[p].req.body.ResetType = "ForceRestart"
        /\ Len(slot[p].calls) = 1
        /\ ~slot[p].calls[1].ok
        /\ slot[p].resp.status = 400
        /\ Lookup(pre, i) = TRUE
        /\ last = pre

\* The calls a reset of the given type makes when none fails.
FullSequence(resetType) ==
    CASE resetType = "On" -> <<"PowerOn">>
      [] resetType \in {"Off", "ForceOff", "GracefulShutdown"} -> <<"PowerOff">>
      [] resetType \in {"ForceRestart", "GracefulRestart"} -> <<"PowerOff", "PowerOn">>
      [] OTHER -> <<>>

\* The step is the last step of a reset by p whose whole sequence succeeded.
CompletesReset(p) ==
    LET s == slot'[p] IN
    /\ slot[p].pc # "done"
    /\ Answered(s)
    /\ s.resp.status = 200
    /\ \E i \in RegisteredIds :
          /\ IsReset(s.req, i)
          /\ FullSequence(s.req.body.ResetType) # <<>>
          /\ Ops(s.calls) = FullSequence(s.req.body.ResetType)
          /\ AllOk(s.calls)
          /\ \A k \in 1..Len(s.calls) : s.calls[k].id = i
          /\ last' = Put(last, i, s.req.body.ResetType \in
                                  {"On", "ForceRestart", "GracefulRestart"})

\* C3: every step that changes the cache is the last step of a reset whose whole
\* call sequence succeeded and writes the value of its type for its own id; and
\* a reset answered with an error has left the cache as it was before it.
C3_CacheOnlyOnSuccess ==
    /\ [][last' # last => \E p \in Procs : CompletesReset(p)]_vars
    /\ [](\A p \in Procs :
            (Answered(slot[p]) /\ slot[p].req.path \in ResetPaths
                               /\ slot[p].resp.status # 200) => last = pre)

\* A restart whose PowerOff succeeded and whose PowerOn failed, with a cache
\* that held false for the system.
C3_Witness ==
    \E p \in Procs : \E i \in RegisteredIds :
        /\ Answered(slot[p])
        /\ IsReset(slot[p].req, i)
        /\ slot[p].req.body.ResetType \in {"ForceRestart", "GracefulRestart"}
        /\ Len(slot[p].calls) = 2
        /\ slot[p].calls[1].ok
        /\ ~slot[p].calls[2].ok
        /\ slot[p].resp.status = 400
        /\ i \in DOMAIN last
        /\ last[i] = FALSE

SupportedResetTypes == {"On", "ForceOff", "GracefulShutdown", "Off",
                        "ForceRestart", "GracefulRestart"}

\* C4: a reset of a registered system with a ResetType outside the six
\* supported values, the empty string included, is answered 400 without any
\* backend call and with the cache unchanged (for a request that passes the
\* credential check).
C4_UnsupportedResetType ==
    \A p \in Procs : \A i \in RegisteredIds :
        LET s == slot[p] IN
        (/\ s.pc # "idle"
         /\ IsReset(s.req, i)
         /\ s.req.body.ResetType \notin SupportedResetTypes
         /\ Authorized(s.req))
        => /\ Answered(s)
           /\ s.resp.status = 400
           /\ s.resp.msg = "unsupported ResetType"
           /\ s.calls = <<>>
           /\ last = pre

C4_Witness ==
    \E p \in Procs : \E i \in RegisteredIds :
        /\ Answered(slot[p])
        /\ IsReset(slot[p].req, i)
        /\ slot[p].req.body.ResetType = ""
        /\ slot[p].resp.status = 400
        /\ Lookup(last, i) = TRUE

\* C5: the reported power state is the live query result when the backend has
\* the query capability and the query succeeded, whatever the cache holds, and
\* the cached value when the capability is absent or the query failed.
C5_Reconciler ==
    \A p \in Procs : \A i \in RegisteredIds :
        LET s == slot[p] IN
        (/\ Answered(s)
         /\ IsSystemGet(s.req, i)
         /\ Authorized(s.req))
        => /\ s.q.called <=> PowerStateProvider(Kind(i))
           /\ (s.q.called /\ ~s.q.err) => ReportsPower(s, s.q.on)
           /\ (~s.q.called \/ s.q.err) => ReportsPower(s, Lookup(last, i))

\* A live result Off is reported although the cache holds true.
C5_Witness ==
    \E p \in Procs : \E i \in RegisteredIds :
        /\ Answered(slot[p])
        /\ IsSystemGet(slot[p].req, i)
        /\ slot[p].q.called
        /\ ~slot[p].q.err
        /\ ~slot[p].q.on
        /\ Lookup(last, i) = TRUE
        /\ ReportsPower(slot[p], FALSE)

\* In the cache: what the last successful reset of i wrote, or nothing.
CachedByLastReset(i) ==
    IF lastOk[i] = "none" THEN i \notin DOMAIN last
    ELSE i \in DOMAIN last /\ last[i] = (lastOk[i] \in {"On", "Restart"})

\* The step is a step of a GET of a single system.
StepOfSystemGet ==
    \E p \in Procs : \E i \in PathIds :
        /\ slot'[p] # slot[p]
        /\ slot'[p].pc # "idle"
        /\ IsSystemGet(slot'[p].req, i)

\* C6: no step of a GET of a single system changes the state cache or the boot
\* cache, and a GET whose live query failed reports what the last successful
\* reset cached (off when there was none), not an earlier live value.
C6_GetWritesNothing ==
    /\ [][StepOfSystemGet => (last' = last /\ boot' = boot)]_vars
    /\ [](\A p \in Procs : \A i \in RegisteredIds :
            (Answered(slot[p]) /\ IsSystemGet(slot[p].req, i)
             /\ Authorized(slot[p].req) /\ slot[p].q.called /\ slot[p].q.err)
            => /\ CachedByLastReset(i)
               /\ ReportsPower(slot[p], lastOk[i] \in {"On", "Restart"}))

\* A GET whose query failed after a successful reset Off reports Off.
C6_Witness ==
    \E p \in Procs : \E i \in RegisteredIds :
        /\ Answered(slot[p])
        /\ IsSystemGet(slot[p].req, i)
        /\ slot[p].q.called
        /\ slot[p].q.err
        /\ lastOk[i] = "Off"
        /\ ReportsPower(slot[p], FALSE)

\* Some health check of the registry succeeds while the request runs.
SomeHealthy(s) ==
    \E i \in RegisteredIds : HealthChecker(Kind(i)) /\ i \in DOMAIN s.health /\ s.health[i]

ShouldBeReady(s) ==
    \/ RegisteredIds = {}
    \/ \E i \in RegisteredIds : ~HealthChecker(Kind(i))
    \/ SomeHealthy(s)

\* C7: readiness answers 200 exactly when the registry is empty, or a backend
\* lacks the health check, or a health check succeeds, and 503 otherwise,
\* whatever the order in which the registry is visited.
C7_Readiness ==
    \A p \in Procs :
        LET s == slot[p] IN
        (Answered(s) /\ s.req.path = ReadyzPath)
        => /\ s.resp.status \in {200, 503}
           /\ s.resp.status = 200 <=> ShouldBeReady(s)
           /\ \A k \in 1..Len(s.calls) : s.calls[k].op = "Ping"

\* Two health-checking backends, the first visited fails and the second succeeds.
C7_Witness ==
    \E p \in Procs :
        LET s == slot[p] IN
        /\ Answered(s)
        /\ s.req.path = ReadyzPath
        /\ Cardinality(RegisteredIds) = 2
        /\ Len(s.calls) = 2
        /\ ~s.calls[1].ok
        /\ s.calls[2].ok
        /\ s.resp.status = 200

InFlight(s) == s.pc \notin {"idle", "done"}

HoldsLock(p) == mu.w = p \/ p \in mu.r

\* A request in flight can take its next step, or waits for the lock while the
\* goroutine that holds it can take its own.
CanProceed(p) ==
    \/ ENABLED StepConc(p)
    \/ /\ slot[p].pc \in {"lock", "rlock", "bootlock"}
       /\ \E q \in Procs \ {p} :
             /\ HoldsLock(q)
             /\ slot[q].pc \in {"read", "bootread", "write"}
             /\ ENABLED StepConc(q)

\* The lock is held exactly by the goroutines inside a critical section.
LockMatchesSections ==
    /\ mu.w \in Procs \cup {0}
    /\ mu.r \subseteq Procs
    /\ mu.w # 0 => mu.r = {}
    /\ \A p \in Procs :
          /\ mu.w = p <=> slot[p].pc = "write"
          /\ p \in mu.r <=> slot[p].pc \in {"read", "bootread"}

\* C8: with requests running concurrently, no request in flight is ever stuck
\* (it can step, or the holder of the lock it waits for can), the lock is held
\* only inside a critical section and so is free once the requests are
\* answered, and the cache entry of each id is what the last successful reset
\* of that id alone wrote, whatever resets ran against the other id.
C8_NoDeadlockNoCorruption ==
    /\ \A p \in Procs : InFlight(slot[p]) => CanProceed(p)
    /\ LockMatchesSections
    /\ \A i \in RegisteredIds : CachedByLastReset(i)

\* A reset of one id waits for the lock that a reset of the other id holds,
\* while the cache holds the opposite of what the holder is about to write.
C8_Witness ==
    \E p, q \in Procs :
        /\ p # q
        /\ slot[p].pc = "write"
        /\ slot[q].pc = "lock"
        /\ slot[p].id # slot[q].id
        /\ slot[q].id \in DOMAIN last
        /\ slot[p].id \in DOMAIN last
        /\ last[slot[p].id] # slot[p].val

\* C9: with credentials configured, a request to a non-exempt path that
\* presents no pair, or a pair other than the configured one, is answered 401
\* with the challenge header and goes no further: no backend call, no handler
\* step, the cache unchanged.
C9_Unauthorized ==
    \A p \in Procs :
        LET s == slot[p] IN
        (/\ s.pc # "idle"
         /\ CredentialsConfigured
         /\ s.req.path \notin ExemptPaths
         /\ ~PresentsConfiguredPair(s.req))
        => /\ Answered(s)
           /\ s.resp.status = 401
           /\ s.resp.challenge
           /\ s.resp.doc = NoDoc
           /\ s.calls = <<>>
           /\ last = pre

\* A reset On with the right user and a wrong password, on a registered system.
C9_Witness ==
    \E p \in Procs : \E i \in RegisteredIds :
        /\ Answered(slot[p])
        /\ IsReset(slot[p].req, i)
        /\ slot[p].req.body.ResetType = "On"
        /\ slot[p].req.auth # NoAuth
        /\ slot[p].req.auth[1] = cfg.Username
        /\ slot[p].req.auth[2] # cfg.Password
        /\ slot[p].resp.status = 401

\* C10: a request to the discovery root or to a health endpoint is never
\* answered 401, whatever it presents and whatever is configured: the root
\* answers a GET with its document and /livez answers 200; and with no
\* credentials configured no request on any path is answered 401.
C10_ExemptAndOpen ==
    \A p \in Procs :
        LET s == slot[p] IN
        s.pc # "idle" =>
            /\ s.req.path \in ExemptPaths =>
                  /\ s.resp.status # 401
                  /\ ~s.resp.challenge
            /\ (s.req.path = RootPath /\ s.req.method = "GET") =>
                  /\ Answered(s)
                  /\ s.resp.status = 200
                  /\ s.resp.doc.type = "root"
            /\ s.req.path = LivezPath => (Answered(s) /\ s.resp.status = 200)
            /\ s.req.path = ReadyzPath => (Answered(s) => s.resp.status \in {200, 503})
            /\ ~CredentialsConfigured =>
                  /\ s.resp.status # 401
                  /\ ~s.resp.challenge

\* The root document is served to a request without credentials although a
\* pair is configured.
C10_Witness ==
    \E p \in Procs :
        /\ CredentialsConfigured
        /\ Answered(slot[p])
        /\ slot[p].req.path = RootPath
        /\ slot[p].req.method = "GET"
        /\ slot[p].req.auth = NoAuth
        /\ slot[p].resp.status = 200

UnregisteredIds == PathIds \ RegisteredIds

\* The paths of the two handlers keyed by id, for the id i.
KeyedPaths(i) == {SystemPath(i), SystemPath(i) \o <<"">>, ResetPath(i)}

\* C12 as stated: every request on an unregistered id, to the single-system
\* handler or to the reset-action handler, is answered 404 without a backend
\* call.
C12_AnyRequestNotFound ==
    \A p \in Procs : \A i \in UnregisteredIds :
        LET s == slot[p] IN
        (Answered(s) /\ s.req.path \in KeyedPaths(i) /\ Authorized(s.req))
        => /\ s.resp.status = 404
           /\ s.calls = <<>>

\* C12 (amended): on an unregistered id, a GET of the single-system path and a
\* POST of the reset-action path, whatever its body, are answered 404; a
\* request with the other method on those paths is answered 405, the method
\* being checked before the id is looked up; none of them makes a backend call
\* or changes the cache.
C12_UnregisteredId ==
    \A p \in Procs : \A i \in UnregisteredIds :
        LET s == slot[p] IN
        (s.pc # "idle" /\ s.req.path \in KeyedPaths(i) /\ Authorized(s.req))
        => /\ Answered(s)
           /\ s.calls = <<>>
           /\ last = pre
           /\ s.resp.status =
                 IF s.req.method = (IF s.req.path = ResetPath(i) THEN "POST" ELSE "GET")
                 THEN 404 ELSE 405

\* A reset with a malformed body on an id the registry of one system lacks.
C12_Witness ==
    \E p \in Procs :
        /\ Answered(slot[p])
        /\ RegisteredIds = {"1"}
        /\ slot[p].req.method = "POST"
        /\ slot[p].req.path = ResetPath("2")
        /\ ~slot[p].req.body.ok
        /\ slot[p].resp.status = 404
        /\ Lookup(last, "1") = TRUE

\* The name synthesized from the id: "System " + id.
DefaultName(i) == <<"System ", i>>

\* C13: a GET of a registered system is answered 200 whatever CurrentState and
\* DisplayName return: after a failed state query the document reports the
\* cached state, and its Name is the name the backend returned when the lookup
\* succeeded with a non-empty name and the default name of the id when the
\* lookup failed, returned the empty name, or the backend has no name lookup.
C13_LookupFailuresRecovered ==
    \A p \in Procs : \A i \in RegisteredIds :
        LET s == slot[p] IN
        (Answered(s) /\ IsSystemGet(s.req, i) /\ Authorized(s.req))
        => /\ s.resp.status = 200
           /\ s.resp.doc.type = "system"
           /\ (s.q.called /\ s.q.err) => ReportsPower(s, Lookup(last, i))
           /\ s.nm.called <=> NameProvider(Kind(i))
           /\ s.resp.doc.Name =
                 IF s.nm.called /\ ~s.nm.err /\ s.nm.name # ""
                 THEN <<s.nm.name>> ELSE DefaultName(i)

\* Both lookups fail while the cache holds true: 200, On, the default name.
C13_Witness ==
    \E p \in Procs : \E i \in RegisteredIds :
        /\ Answered(slot[p])
        /\ IsSystemGet(slot[p].req, i)
        /\ slot[p].q.called
        /\ slot[p].q.err
        /\ slot[p].nm.called
        /\ slot[p].nm.err
        /\ Lookup(last, i) = TRUE
        /\ ReportsPower(slot[p], TRUE)
        /\ slot[p].resp.doc.Name = DefaultName(i)

IsRestart(s) ==
    /\ s.pc # "idle"
    /\ \E i \in RegisteredIds : IsReset(s.req, i)
    /\ s.req.body.ResetType \in {"ForceRestart", "GracefulRestart"}

PowerOffOk(s) == <<[id |-> s.id, op |-> "PowerOff", ok |-> TRUE]>>

\* C14: in a restart the calls the backend sees are PowerOff, then PowerOn,
\* with the delay between them: the delay starts only from a PowerOff that
\* returned success, control reaches PowerOn only from the end of the delay,
\* the delay ends in nothing but the PowerOn call, cancelled or not, and a
\* restart that is in its delay always reaches its PowerOn call.
C14_RestartSequence ==
    /\ [](\A p \in Procs : IsRestart(slot[p]) =>
            /\ slot[p].pc = "roff" => slot[p].calls = <<>>
            /\ slot[p].pc \in {"sleep", "ron"} => slot[p].calls = PowerOffOk(slot[p])
            /\ Ops(slot[p].calls) \in {<<>>, <<"PowerOff">>, <<"PowerOff", "PowerOn">>}
            /\ Len(slot[p].calls) = 2 => slot[p].calls[1].ok)
    /\ [][\A p \in Procs :
            /\ (slot'[p].pc = "sleep" /\ slot[p].pc # "sleep") => slot[p].pc = "roff"
            /\ (slot'[p].pc = "ron" /\ slot[p].pc # "ron") => slot[p].pc = "sleep"
            /\ slot[p].pc = "sleep" => slot'[p].pc \in {"sleep", "ron"}]_vars
    /\ \A p \in Procs : (slot[p].pc = "sleep") ~> (slot[p].pc = "ron")

\* The client went away during the delay and PowerOn was still called.
C14_Witness ==
    \E p \in Procs :
        /\ IsRestart(slot[p])
        /\ slot[p].cancelled
        /\ Len(slot[p].calls) = 2
        /\ slot[p].calls[1] = [id |-> "1", op |-> "PowerOff", ok |-> TRUE]
        /\ slot[p].calls[2].op = "PowerOn"

\* C15: no step changes the configuration, so in every reachable state the
\* registered ids and the backend of each id are those given to New; the ids
\* are also those the history of resets was created with at construction.
C15_RegistryImmutable ==
    /\ [][cfg' = cfg /\ DOMAIN cfg.Systems' = DOMAIN cfg.Systems
                     /\ \A i \in DOMAIN cfg.Systems : cfg.Systems'[i] = cfg.Systems[i]]_vars
    /\ [](DOMAIN cfg.Systems = DOMAIN lastOk)

\* Two systems with different backends; a reset of the first succeeded, and a
\* request on an unknown id has just been answered 404.
C15_Witness ==
    \E p \in Procs :
        /\ cfg.Systems = Reg2("noop", "custom")
        /\ lastOk["1"] = "On"
        /\ Answered(slot[p])
        /\ slot[p].req.path = SystemPath("9")
        /\ slot[p].resp.status = 404

IsPrefix(a, b) == Len(a) <= Len(b) /\ a = SubSeq(b, 1, Len(a))

\* C16: at every point of a reset of a registered system the calls made so far
\* are a prefix of the sequence of its type (On: PowerOn; Off, ForceOff,
\* GracefulShutdown: PowerOff; restart: PowerOff, PowerOn), so no operation is
\* called twice; every call is on the backend of the requested id; no call
\* follows a call that failed; and a reset one of whose calls failed is
\* answered 400 with the cache as it was.
C16_NoRetry ==
    \A p \in Procs : \A i \in RegisteredIds :
        LET s == slot[p] IN
        (s.pc # "idle" /\ IsReset(s.req, i) /\ Authorized(s.req))
        => /\ IsPrefix(Ops(s.calls), FullSequence(s.req.body.ResetType))
           /\ \A k \in 1..Len(s.calls) :
                 /\ s.calls[k].id = i
                 /\ k < Len(s.calls) => s.calls[k].ok
           /\ ~AllOk(s.calls) =>
                 /\ Answered(s)
                 /\ s.resp.status = 400
                 /\ last = pre

\* A reset On of the second system whose one PowerOn failed.
C16_Witness ==
    \E p \in Procs :
        /\ Answered(slot[p])
        /\ RegisteredIds = SystemIds
        /\ IsReset(slot[p].req, "2")
        /\ slot[p].req.body.ResetType = "On"
        /\ slot[p].calls = <<[id |-> "2", op |-> "PowerOn", ok |-> FALSE]>>
        /\ slot[p].resp.status = 400

IsProbe(s) == s.pc # "idle" /\ s.req.path \in {LivezPath, ReadyzPath}

\* C17: a GET of /livez is answered 200 "ok" at once, whatever the registry
\* holds, whatever credentials are configured or presented and whatever the
\* cache holds; and at every point of a /livez or /readyz request the only
\* backend calls made are Ping calls (none at all for /livez) and the cache is
\* as it was when the request arrived.
C17_Probes ==
    \A p \in Procs :
        LET s == slot[p] IN
        /\ (s.pc # "idle" /\ s.req.path = LivezPath /\ s.req.method = "GET")
              => /\ Answered(s)
                 /\ s.resp.status = 200
                 /\ s.calls = <<>>
        /\ IsProbe(s)
              => /\ \A k \in 1..Len(s.calls) : s.calls[k].op = "Ping"
                 /\ s.req.path = LivezPath => s.calls = <<>>
                 /\ s.pc \in {"ping", "done"}
                 /\ last = pre

\* Liveness is answered with an empty registry, credentials configured and none
\* presented.
C17_Witness ==
    \E p \in Procs :
        /\ Answered(slot[p])
        /\ slot[p].req.path = LivezPath
        /\ slot[p].req.method = "GET"
        /\ slot[p].req.auth = NoAuth
        /\ CredentialsConfigured
        /\ RegisteredIds = {}
        /\ slot[p].resp.status = 200

\* The values every system document lists under
\* ResetType@Redfish.AllowableValues.
AdvertisedResetTypes == {"On", "ForceOff", "GracefulShutdown", "ForceRestart"}

\* C18: every system document advertises exactly On, ForceOff,
\* GracefulShutdown and ForceRestart, and a reset of a registered system with
\* one of the values a document advertises is never answered "unsupported
\* ResetType": it goes on to its backend calls, is answered 400 only after a
\* call that failed, and is answered 200 with status ok when its calls
\* succeeded (for a request that passes the credential check).
C18_AdvertisedAccepted ==
    \A p \in Procs :
        LET s == slot[p] IN
        /\ (Answered(s) /\ s.resp.status = 200 /\ s.resp.doc.type = "system")
              => /\ s.resp.doc.ResetAllowableValues = AdvertisedResetTypes
                 /\ \A t \in s.resp.doc.ResetAllowableValues :
                       applyReset(s, t).pc # "done"
        /\ \A i \in RegisteredIds :
              (Answered(s) /\ IsReset(s.req, i) /\ Authorized(s.req)
                           /\ s.req.body.ResetType \in AdvertisedResetTypes)
              => /\ s.resp.msg # "unsupported ResetType"
                 /\ s.calls # <<>>
                 /\ AllOk(s.calls) <=> s.resp.status = 200
                 /\ AllOk(s.calls) => s.resp.doc = [type |-> "status", status |-> "ok"]
                 /\ ~AllOk(s.calls) => s.resp.status = 400

\* A GracefulShutdown, a value the document advertises, is answered ok.
C18_Witness ==
    \E p \in Procs : \E i \in RegisteredIds :
        /\ Answered(slot[p])
        /\ IsReset(slot[p].req, i)
        /\ slot[p].req.body.ResetType = "GracefulShutdown"
        /\ slot[p].calls = <<[id |-> i, op |-> "PowerOff", ok |-> TRUE]>>
        /\ slot[p].resp.status = 200
        /\ slot[p].resp.doc.status = "ok"

\* The goroutine is inside a backend call or the restart delay.
InBackendCall(s) ==
    s.pc \in {"query", "name", "ping", "on", "off", "roff", "ron", "sleep"}

\* The goroutine is between the acquisition and the release of the lock.
InSection(s) == s.pc \in {"read", "bootread", "write"}

WaitsForLock(s) == s.pc \in {"lock", "rlock", "bootlock"}

\* C19: the lock is held exactly by the goroutines that are at the single read
\* or write of a cache map, never by one that is in a backend call or in the
\* restart delay; so a request that needs the lock can take it whenever no
\* other request is at such a read or write, whatever calls and delays are in
\* progress, and when it cannot, the request that holds the lock can finish
\* its read or write at once.
C19_ShortSections ==
    /\ LockMatchesSections
    /\ \A p \in Procs : InBackendCall(slot[p]) => ~HoldsLock(p)
    /\ \A p \in Procs :
          WaitsForLock(slot[p]) =>
             /\ (\A q \in Procs \ {p} : ~InSection(slot[q])) => ENABLED Step(p)
             /\ ~ENABLED Step(p) =>
                   \E q \in Procs \ {p} : InSection(slot[q]) /\ ENABLED Step(q)

\* A read of the first system's cache entry takes the lock while a restart of
\* the second system is in its delay.
C19_Witness ==
    \E p, q \in Procs :
        /\ slot[p].pc = "sleep"
        /\ slot[p].id = "2"
        /\ slot[q].pc = "read"
        /\ slot[q].id = "1"
        /\ q \in mu.r

Quiescent == \A p \in Procs : slot[p].pc \in {"idle", "done"}

\* C20 as stated: with On and Off resets of one system running concurrently,
\* once every request is answered the cached state of the system is the
\* effect of the backend call that succeeded last (true after PowerOn, false
\* after PowerOff).
C20_CacheFollowsLastCall ==
    Quiescent =>
        \A i \in DOMAIN power :
            power[i] # "none" => Lookup(last, i) = (power[i] = "PowerOn")

\* The one call of an On or Off reset, returned with success.
OwnCallOk(s) ==
    <<[id |-> s.id,
       op |-> IF s.req.body.ResetType \in OnTypes THEN "PowerOn" ELSE "PowerOff",
       ok |-> TRUE]>>

\* C20 (amended): with On and Off resets of one system running concurrently,
\* the cache writes are serialized by the lock (one writer at a time, the lock
\* held exactly during a write), a request writes only after its own backend
\* call succeeded and writes the value of its own type, and once every request
\* is answered the cached state is the value of the reset whose cache write
\* came last; it need not be the effect of the backend call that succeeded
\* last.
C20_CacheFollowsLastWrite ==
    /\ LockMatchesSections
    /\ Cardinality({p \in Procs : slot[p].pc = "write"}) <= 1
    /\ \A p \in Procs :
          slot[p].pc \in {"lock", "write"} =>
             /\ slot[p].calls = OwnCallOk(slot[p])
             /\ slot[p].val = (slot[p].req.body.ResetType \in OnTypes)
    /\ Quiescent => \A i \in RegisteredIds : CachedByLastReset(i)

\* Every request is answered, the cache says on, and the backend call that
\* succeeded last was a PowerOff.
C20_Witness ==
    /\ Quiescent
    /\ \A p \in Procs : slot[p].pc = "done" /\ slot[p].resp.status = 200
    /\ power["1"] = "PowerOff"
    /\ lastOk["1"] = "On"
    /\ Lookup(last, "1") = TRUE

\* A reset request has been answered.
ResetAnswered(s) == Answered(s) /\ s.req.path \in ResetPaths

\* C21 as stated: with resets sent one after the other, whenever a reset has
\* been answered the cached state of every system is true exactly when the
\* backend call that succeeded last on it was a PowerOn, and false when it was
\* a PowerOff or when no call has succeeded.
C21_CacheIsLastMutation ==
    \A p \in Procs :
        ResetAnswered(slot[p]) =>
            \A i \in DOMAIN power : Lookup(last, i) = (power[i] = "PowerOn")

\* C21 (amended): with resets sent one after the other, whenever a reset has
\* been answered the cached state of every system is true exactly when the
\* last reset of it that returned success was an On or a restart, and false
\* when it was an Off or none has succeeded; it is true whenever the call
\* that succeeded last was a PowerOn and absent when no call has succeeded,
\* and a reset answered with an error, a restart whose PowerOff succeeded
\* and whose PowerOn failed included, has left it as it was.
C21_CacheIsLastSuccessfulReset ==
    \A p \in Procs :
        ResetAnswered(slot[p]) =>
            /\ \A i \in DOMAIN power :
                  /\ CachedByLastReset(i)
                  /\ power[i] = "PowerOn" => Lookup(last, i) = TRUE
                  /\ power[i] = "none" => i \notin DOMAIN last
            /\ slot[p].resp.status # 200 => last = pre

\* A restart of a system cached as on fails at PowerOn: the call that
\* succeeded last is a PowerOff and the cache still says on.
C21_Witness ==
    \E p \in Procs : \E i \in RegisteredIds :
        /\ ResetAnswered(slot[p])
        /\ IsRestart(slot[p])
        /\ Ops(slot[p].calls) = <<"PowerOff", "PowerOn">>
        /\ slot[p].calls[1].ok
        /\ ~slot[p].calls[2].ok
        /\ slot[p].resp.status = 400
        /\ power[i] = "PowerOff"
        /\ Lookup(last, i) = TRUE

\* The boot block of a system document.
BootOf(doc) == [BootSourceOverrideTarget |-> doc.BootSourceOverrideTarget,
                BootSourceOverrideEnabled |-> doc.BootSourceOverrideEnabled]

DefaultBoot == [BootSourceOverrideTarget |-> "None",
                BootSourceOverrideEnabled |-> "Disabled"]

\* C22: the boot block of a system document is the cached boot value of the
\* system, or None/Disabled when its target is unset; the boot cache has no
\* entry in any reachable state, a GET that substituted the defaults does not
\* store them, and so every document of a registered system reports
\* None/Disabled.
C22_BootDefaults ==
    /\ DOMAIN boot = {}
    /\ \A p \in Procs : \A i \in RegisteredIds :
          LET s == slot[p] IN
          (Answered(s) /\ IsSystemGet(s.req, i) /\ Authorized(s.req))
          => /\ s.resp.status = 200
             /\ BootOf(s.resp.doc) =
                   IF LookupBoot(boot, i).BootSourceOverrideTarget = ""
                   THEN DefaultBoot ELSE LookupBoot(boot, i)
             /\ BootOf(s.resp.doc) = DefaultBoot

\* A system that a reset has switched on is read: None/Disabled, and the boot
\* cache still has no entry for it.
C22_Witness ==
    \E p \in Procs : \E i \in RegisteredIds :
        /\ Answered(slot[p])
        /\ IsSystemGet(slot[p].req, i)
        /\ slot[p].resp.status = 200
        /\ lastOk[i] = "On"
        /\ BootOf(slot[p].resp.doc) = DefaultBoot
        /\ i \notin DOMAIN boot

\* The request is forwarded by the auth gate to the mux.
Forwarded(req) == req.path \in ExemptPaths \/ Authorized(req)

\* Answered with the given status, without a backend call, the cache unchanged.
Refused(s, code) ==
    /\ Answered(s)
    /\ s.resp.status = code
    /\ s.calls = <<>>
    /\ last = pre

\* The checks of the reset-action path in their order: method, id, body,
\* action.
ResetChecksInOrder(s) ==
    \A i \in PathIds :
        s.req.path = ResetPath(i) =>
            /\ s.req.method # "POST" => Refused(s, 405)
            /\ (s.req.method = "POST" /\ i \notin RegisteredIds) => Refused(s, 404)
            /\ (s.req.method = "POST" /\ i \in RegisteredIds /\ ~s.req.body.ok)
                  => (Refused(s, 400) /\ s.resp.msg = "bad request")
            /\ (s.req.method = "POST" /\ i \in RegisteredIds /\ s.req.body.ok
                  /\ s.req.body.ResetType \notin SupportedResetTypes)
                  => (Refused(s, 400) /\ s.resp.msg = "unsupported ResetType")

\* C23 as stated: the reset-action path checks method, id, body and action in
\* that order, and on every other route a method other than GET is answered
\* 405 without a backend call.
C23_MethodCheckedEverywhere ==
    \A p \in Procs :
        LET s == slot[p] IN
        (s.pc # "idle" /\ Forwarded(s.req)) =>
            /\ ResetChecksInOrder(s)
            /\ (s.req.path \notin ResetPaths /\ s.req.method # "GET"
                  /\ Mux(s.req.path) \in {"handleRoot", "handleSystems", "handleSystem",
                                          "handleLivez", "handleReadyz"})
                  => (Answered(s) /\ s.resp.status = 405 /\ s.calls = <<>>)

\* C23 (amended): the reset-action path checks method, id, body and action in
\* that order (405, then 404 even with a malformed body, then 400 for the
\* body, then 400 for the action), each without a backend call and with the
\* cache unchanged; on the root, collection and single-system routes a
\* method other than GET is answered 405 without a backend call, except
\* that the collection path with a trailing slash and no id is answered 404
\* for every method; the two
\* health routes do not look at the method: /livez answers 200 and /readyz
\* runs its health checks and answers 200 or 503.
C23_CheckOrder ==
    \A p \in Procs :
        LET s == slot[p] IN
        (s.pc # "idle" /\ Forwarded(s.req)) =>
            /\ ResetChecksInOrder(s)
            /\ (s.req.path \notin ResetPaths /\ s.req.method # "GET"
                  /\ Mux(s.req.path) \in {"handleRoot", "handleSystems", "handleSystem"}
                  /\ s.req.path # SystemsPath \o <<"">>)
                  => (Answered(s) /\ s.resp.status = 405 /\ s.calls = <<>>)
            /\ s.req.path = SystemsPath \o <<"">> => Refused(s, 404)
            /\ s.req.path = LivezPath => (Answered(s) /\ s.resp.status = 200)
            /\ s.req.path = ReadyzPath =>
                  /\ s.pc \in {"ping", "done"}
                  /\ Answered(s) => s.resp.status = IF ShouldBeReady(s) THEN 200 ELSE 503
                  /\ (Answered(s) /\ RegisteredIds # {}
                         /\ \A i \in RegisteredIds : HealthChecker(Kind(i)))
                        => s.calls # <<>>

\* A POST with a malformed body on the reset path of an unknown id, in a
\* registry that holds a system cached as on: 404, not 400.
C23_Witness ==
    \E p \in Procs :
        /\ Answered(slot[p])
        /\ slot[p].req.method = "POST"
        /\ slot[p].req.path = ResetPath("9")
        /\ ~slot[p].req.body.ok
        /\ slot[p].resp.status = 404
        /\ \E i \in RegisteredIds : Lookup(last, i) = TRUE

\* GET /redfish/v1/Systems
IsCollectionGet(req) == req.method = "GET" /\ req.path = SystemsPath

MemberLinks(doc) == {doc.Members[k] : k \in 1..Len(doc.Members)}

\* C24: an authorized GET of the Systems collection is answered 200 with
\* exactly one member link per registered id (no duplicate, no other link)
\* and a count equal to the number of registered systems, whatever the
\* iteration order, the cache and the outcome of earlier backend calls; it
\* calls no backend and leaves the cache alone.
C24_CollectionListsRegistry ==
    \A p \in Procs :
        LET s == slot[p] IN
        (s.pc # "idle" /\ IsCollectionGet(s.req) /\ Authorized(s.req))
        => /\ Answered(s)
           /\ s.resp.status = 200
           /\ s.resp.doc.type = "collection"
           /\ MemberLinks(s.resp.doc) = {SystemPath(i) : i \in RegisteredIds}
           /\ Len(s.resp.doc.Members) = Cardinality(RegisteredIds)
           /\ s.resp.doc.Count = Cardinality(RegisteredIds)
           /\ s.calls = <<>>
           /\ last = pre

\* A two-system registry listed with system 2 first, while the cache holds
\* an entry set by an earlier reset.
C24_Witness ==
    \E p \in Procs :
        /\ Answered(slot[p])
        /\ IsCollectionGet(slot[p].req)
        /\ slot[p].resp.status = 200
        /\ slot[p].resp.doc.Count = 2
        /\ slot[p].resp.doc.Members[1] = SystemPath("2")
        /\ \E i \in RegisteredIds : Lookup(last, i) = TRUE

\* The spellings of "on" among the fetched state strings.
OnIgnoringCase == {"on", "ON", "On"}

\* C25: when a GET of a remote-switch system is about to query the backend,
\* CurrentState returns an error exactly when the fetch fails, and otherwise
\* returns true exactly when the fetched string is "on" ignoring case; after
\* a successful fetch the reconciler takes the returned value and does not
\* go on to read the cache, after a failed one it does; and a GET answered
\* after a successful query reports the queried value, whatever the cache
\* holds.
C25_RemoteSwitchState ==
    \A p \in Procs :
        LET s == slot[p] IN
        /\ (s.pc = "query" /\ Kind(s.id) = "homeassistant") =>
              \A f \in FetchStateResults :
                  LET r == HACurrentState(f)
                      t == Reconcile(s, r)
                  IN /\ r.err <=> f.err
                     /\ ~f.err => (r.on <=> f.state \in OnIgnoringCase)
                     /\ f.err => t.pc = "rlock"
                     /\ ~f.err => (t.pc # "rlock" /\ t.on = r.on)
        /\ \A i \in RegisteredIds :
              (Answered(s) /\ IsSystemGet(s.req, i) /\ Authorized(s.req)
                 /\ Kind(i) = "homeassistant" /\ s.q.called /\ ~s.q.err)
              => ReportsPower(s, s.q.on)

\* A remote-switch system cached as on whose query succeeds with a state
\* other than "on": the answer is Off.
C25_Witness ==
    \E p \in Procs : \E i \in RegisteredIds :
        /\ Answered(slot[p])
        /\ IsSystemGet(slot[p].req, i)
        /\ Kind(i) = "homeassistant"
        /\ slot[p].q.called /\ ~slot[p].q.err /\ ~slot[p].q.on
        /\ Lookup(last, i) = TRUE
        /\ ReportsPower(slot[p], FALSE)

\* The mux hands the path to the service-root fallback or to no handler.
FallsThrough(path) == Mux(path) \in {"handleRoot", "notfound", "redirect"}

\* C26: every link rendered in a 200 answer is routed to a handler for the
\* resource it names: the Systems link of the root document to the
\* collection handler, each member link of the collection to the system
\* handler with a registered id, the reset target of a system document to
\* the reset branch of the system handler for that id, and the managed-by
\* link to a handler other than the service-root fallback or not-found.
C26_LinksAreRouted ==
    \A p \in Procs :
        LET s == slot[p]
            doc == s.resp.doc
        IN (Answered(s) /\ s.resp.status = 200) =>
              /\ doc.type = "root" => Mux(doc.Systems) = "handleSystems"
              /\ doc.type = "collection" =>
                    \A k \in 1..Len(doc.Members) :
                        /\ Mux(doc.Members[k]) = "handleSystem"
                        /\ Registered(TrimSlash(TrimPrefixSystems(doc.Members[k])))
              /\ doc.type = "system" =>
                    /\ Mux(doc.target) = "handleSystem"
                    /\ HasResetSuffix(TrimPrefixSystems(doc.target))
                    /\ TrimSlash(TrimResetSuffix(TrimPrefixSystems(doc.target))) = <<doc.Id>>
                    /\ ~FallsThrough(doc.ManagedBy)

\* C27: the keys of the last-known-state cache are registered system ids.
C27_CacheKeysRegistered == DOMAIN last \subseteq RegisteredIds

\* A well-formed reset of an unknown id, presented to a server whose cache
\* holds an entry, has been answered 404: the cache still has only
\* registered keys and is what it was before the request.
C27_Witness ==
    \E p \in Procs :
        /\ Answered(slot[p])
        /\ slot[p].req.method = "POST"
        /\ slot[p].req.path = ResetPath("9")
        /\ slot[p].req.body.ok
        /\ slot[p].resp.status = 404
        /\ DOMAIN last # {}
        /\ last = pre

====
